---- MODULE Spec2Model ----
(***************************************************************************)
(* aare.ai verification endpoint (GCP): the ontology loader                *)
(* (handlers/ontology_loader.py) and the HTTP handler verify() (main.py).  *)
(*                                                                         *)
(* Four specifications share the variables and the operators below.        *)
(*   Spec      one serving thread, every request shape, every store answer. *)
(*   SpecConc  NumThreads serving threads loading NumNames distinct names,  *)
(*             enough to fill the lru_cache and evict from it.              *)
(*   SpecRace  NumThreads threads loading two names while the store changes. *)
(*   SpecList  list_available() over every small bucket listing.             *)
(***************************************************************************)
EXTENDS Integers, Sequences, FiniteSets, TLC

(* ------------------------------ bounds -------------------------------- *)
NumThreads == 2       \* serving threads of one instance
NumNames == 11        \* distinct ontology names loaded under SpecConc
MaxExtras == 2        \* SpecConc: load calls answered by the cache, missing on
                      \* a name used before, or started while another one runs
MaxChunks == 3        \* SpecList: chunks in an object name
MaxBlobs == 2         \* SpecList: objects in the bucket

Threads == 1..NumThreads

(* --------------------------- program constants ------------------------ *)
maxsize == 10

ALLOWED_ORIGINS ==
  << "https://aare.ai", "https://www.aare.ai",
     "http://localhost:8000", "http://localhost:3000" >>

required_fields == << "name", "version", "constraints", "extractors" >>

SeqRange(s) == { s[i] : i \in 1..Len(s) }

(* ------------------------------ values -------------------------------- *)
\* A Python value used as ontology name: a str, or a list (a JSON array in
\* the request body), which has no hash.
StrName(s) == [type |-> "str", val |-> s]
DefaultName == StrName("mortgage-compliance-v1")
CustomName == StrName("custom-v2")
ListName == [type |-> "list", val |-> "[custom-v2]"]

Hashable(name) == name.type # "list"

\* A parsed JSON value as the loader sees it: its Python type, what the "in"
\* operator finds in it (keys of a dict, elements of a list, substrings of a
\* str), and the fields verify() reads from an ontology.
NoDoc ==
  [type |-> "none", has |-> {}, name |-> "", version |-> "",
   nconstraints |-> 0, nextractors |-> 0]

Document(type, has, version) ==
  [type |-> type, has |-> has, name |-> "custom-v2", version |-> version,
   nconstraints |-> 2, nextractors |-> 3]

ObjV1 == Document("dict", SeqRange(required_fields), "1.0.0")
ObjV2 == Document("dict", SeqRange(required_fields), "2.0.0")
ObjNoExtractors == Document("dict", {"name", "version", "constraints"}, "1.0.0")
ObjNoName == Document("dict", {"version", "extractors"}, "1.0.0")
ListAll == Document("list", SeqRange(required_fields), "")
StrAll == Document("str", SeqRange(required_fields), "")
ListSome == Document("list", {"name"}, "")
Number == Document("int", {}, "")

\* exceptions: the kind (type(e).__name__) and the message (str(e))
NoExc == [kind |-> "", msg |-> ""]
Exc(kind, msg) == [kind |-> kind, msg |-> msg]

(* --------------------------- ontology loader -------------------------- *)
\* "field in ontology"
InRaises(ontology) == ontology.type \notin {"dict", "list", "str"}
In(field, ontology) == field \in ontology.has

RECURSIVE ValidateFrom(_, _)
ValidateFrom(i, ontology) ==
  IF i > Len(required_fields) THEN [exc |-> NoExc, value |-> ontology]
  ELSE IF InRaises(ontology)
       THEN [exc |-> Exc("TypeError", "argument of type 'int' is not iterable"),
             value |-> NoDoc]
  ELSE IF ~In(required_fields[i], ontology)
       THEN [exc |-> Exc("ValueError", "Invalid ontology: missing " \o required_fields[i]),
             value |-> NoDoc]
  ELSE ValidateFrom(i + 1, ontology)

_validate_ontology(ontology) == ValidateFrom(1, ontology)

_get_default_ontology ==
  [type |-> "dict",
   has |-> {"name", "version", "description", "constraints", "extractors"},
   name |-> "mortgage-compliance-v1", version |-> "1.0.0",
   nconstraints |-> 5, nextractors |-> 10]

\* What the store answers to download_as_text() of an object: NotFound, any
\* other failure, or the object's text.
NotFound == [status |-> "NotFound", text |-> ""]
FetchError == [status |-> "Error", text |-> ""]
Text(t) == [status |-> "Ok", text |-> t]

\* json.loads(content)
json_loads(content) ==
  CASE content = "objV1" -> [exc |-> NoExc, value |-> ObjV1]
    [] content = "objV2" -> [exc |-> NoExc, value |-> ObjV2]
    [] content = "objNoExtractors" -> [exc |-> NoExc, value |-> ObjNoExtractors]
    [] content = "objNoName" -> [exc |-> NoExc, value |-> ObjNoName]
    [] content = "listAll" -> [exc |-> NoExc, value |-> ListAll]
    [] content = "strAll" -> [exc |-> NoExc, value |-> StrAll]
    [] content = "listSome" -> [exc |-> NoExc, value |-> ListSome]
    [] content = "number" -> [exc |-> NoExc, value |-> Number]
    [] OTHER -> [exc |-> Exc("JSONDecodeError", "Expecting value"), value |-> NoDoc]

StoreAnswers ==
  { NotFound, FetchError, Text("{malformed"), Text("objV1"), Text("objV2"),
    Text("objNoExtractors"), Text("objNoName"), Text("listAll"), Text("strAll"),
    Text("listSome"), Text("number") }

\* load() without the call of _validate_ontology
LoadBodyUnvalidated(client, answer) ==
  IF client /\ answer.status = "Ok" /\ json_loads(answer.text).exc = NoExc
  THEN [value |-> json_loads(answer.text).value, fetched |-> TRUE, absorbed |-> NoExc]
  ELSE [value |-> _get_default_ontology, fetched |-> client, absorbed |-> NoExc]

\* The body of load(): the value it returns, whether it downloaded, and the
\* exception it absorbed on the way.
LoadBodyResult(client, answer) ==
  IF ~client
  THEN [value |-> _get_default_ontology, fetched |-> FALSE, absorbed |-> NoExc]
  ELSE IF answer.status = "NotFound"
  THEN [value |-> _get_default_ontology, fetched |-> TRUE,
        absorbed |-> Exc("NotFound", "404")]
  ELSE IF answer.status = "Error"
  THEN [value |-> _get_default_ontology, fetched |-> TRUE,
        absorbed |-> Exc("ServiceUnavailable", "503")]
  ELSE LET parsed == json_loads(answer.text) IN
       IF parsed.exc # NoExc
       THEN [value |-> _get_default_ontology, fetched |-> TRUE,
             absorbed |-> parsed.exc]
       ELSE LET validated == _validate_ontology(parsed.value) IN
            IF validated.exc # NoExc
            THEN [value |-> _get_default_ontology, fetched |-> TRUE,
                  absorbed |-> validated.exc]
            ELSE [value |-> validated.value, fetched |-> TRUE, absorbed |-> NoExc]

(* ------------------------- lru_cache(maxsize=10) ---------------------- *)
\* The cache is a sequence of entries [key, result], least recently used
\* first.
CacheKeys(c) == { c[i].key : i \in 1..Len(c) }
CacheIndex(c, key) == CHOOSE i \in 1..Len(c) : c[i].key = key
CacheGet(c, key) == c[CacheIndex(c, key)].result
RemoveAt(c, i) == SubSeq(c, 1, i - 1) \o SubSeq(c, i + 1, Len(c))

\* a hit moves the entry to the most recently used end
CacheTouch(c, key) ==
  LET i == CacheIndex(c, key) IN Append(RemoveAt(c, i), c[i])

\* a wrapper that never stores a result
CacheInsertNothing(c, key, result) == c

\* a wrapper that evicts the newest entry of a full cache
CacheInsertEvictNewest(c, key, result) ==
  IF key \in CacheKeys(c) THEN c
  ELSE IF Len(c) >= maxsize
       THEN Append(SubSeq(c, 1, Len(c) - 1), [key |-> key, result |-> result])
  ELSE Append(c, [key |-> key, result |-> result])

\* a wrapper that stores fetched documents only, never the default
CacheInsertSkipsDefault(c, key, result) ==
  IF key \in CacheKeys(c) \/ result = _get_default_ontology THEN c
  ELSE IF Len(c) >= maxsize THEN Append(Tail(c), [key |-> key, result |-> result])
  ELSE Append(c, [key |-> key, result |-> result])

\* a wrapper that replaces the entry a concurrent call added
CacheInsertOverwrite(c, key, result) ==
  IF key \in CacheKeys(c)
  THEN [c EXCEPT ![CacheIndex(c, key)] = [key |-> key, result |-> result]]
  ELSE IF Len(c) >= maxsize THEN Append(Tail(c), [key |-> key, result |-> result])
  ELSE Append(c, [key |-> key, result |-> result])

\* after the wrapped call returned: keep an entry a concurrent call added,
\* else insert, evicting the oldest entry of a full cache
CacheInsert(c, key, result) ==
  IF key \in CacheKeys(c) THEN c
  ELSE IF Len(c) >= maxsize THEN Append(Tail(c), [key |-> key, result |-> result])
  ELSE Append(c, [key |-> key, result |-> result])

(* ------------------------------ requests ------------------------------ *)
NoOrigin == "<no Origin header>"
Origins ==
  { ALLOWED_ORIGINS[1], ALLOWED_ORIGINS[4], "https://evil.example", NoOrigin }
Methods == { "OPTIONS", "POST", "GET" }

\* The request body: absent, text that is not JSON, or a JSON value.  A JSON
\* value has a Python type and a truth value; a dict may hold llm_output,
\* ontology and other keys.
BodyOf(kind, type, empty, hasLlm, llm, hasOnt, ont) ==
  [kind |-> kind, type |-> type, empty |-> empty,
   hasLlm |-> hasLlm, llm |-> llm, hasOnt |-> hasOnt, ont |-> ont]

NoBody == BodyOf("absent", "none", TRUE, FALSE, "", FALSE, DefaultName)
BadBody == BodyOf("unparseable", "none", TRUE, FALSE, "", FALSE, DefaultName)
JsonOther(type, empty) == BodyOf("json", type, empty, FALSE, "", FALSE, DefaultName)
JsonDict(empty, hasLlm, llm, hasOnt, ont) ==
  BodyOf("json", "dict", empty, hasLlm, llm, hasOnt, ont)

LlmText == "DTI: 50%, no compensating factors"

Bodies ==
  { NoBody, BadBody,
    JsonOther("NoneType", TRUE), JsonOther("list", TRUE), JsonOther("list", FALSE),
    JsonDict(TRUE, FALSE, "", FALSE, DefaultName),
    JsonDict(FALSE, FALSE, "", FALSE, DefaultName) }
  \cup { JsonDict(FALSE, FALSE, "", TRUE, n) : n \in {CustomName, ListName} }
  \cup { JsonDict(FALSE, TRUE, l, FALSE, DefaultName) : l \in {"", LlmText} }
  \cup { JsonDict(FALSE, TRUE, l, TRUE, n) :
           l \in {"", LlmText}, n \in {CustomName, ListName} }

Request(method, origin, body) ==
  [method |-> method, origin |-> origin, body |-> body]
Requests == { Request(m, o, b) : m \in Methods, o \in Origins, b \in Bodies }
NoRequest == Request("", NoOrigin, NoBody)

(* ----------------------- extractor and solver ------------------------- *)
\* External collaborators: each call returns a value or raises.
NoData == [serializable |-> TRUE, fields |-> 0]
ExtractorOutcomes ==
  { [exc |-> NoExc, value |-> [serializable |-> TRUE, fields |-> 2]],
    [exc |-> NoExc, value |-> [serializable |-> FALSE, fields |-> 1]],
    [exc |-> Exc("ValueError", "could not extract"), value |-> NoData] }

NoVerdict ==
  [verified |-> FALSE, violations |-> 0, proof |-> "", execution_time_ms |-> 0]
SolverOutcomes ==
  { [exc |-> NoExc,
     value |-> [verified |-> TRUE, violations |-> 0, proof |-> "sat",
                execution_time_ms |-> 3]],
    [exc |-> NoExc,
     value |-> [verified |-> FALSE, violations |-> 1, proof |-> "unsat",
                execution_time_ms |-> 7]],
    [exc |-> Exc("Z3Exception", "solver failed"), value |-> NoVerdict] }

(* ------------------------------- verify ------------------------------- *)
HeaderGet(request) == IF request.origin = NoOrigin THEN "" ELSE request.origin

\* CORS headers that echo whatever Origin the request carries
CorsHeadersEcho(request) ==
  [h \in {"Content-Type", "Access-Control-Allow-Origin",
          "Access-Control-Allow-Headers", "Access-Control-Allow-Methods"} |->
     CASE h = "Content-Type" -> "application/json"
       [] h = "Access-Control-Allow-Origin" -> HeaderGet(request)
       [] h = "Access-Control-Allow-Headers" -> "Content-Type,x-api-key,Authorization"
       [] OTHER -> "OPTIONS,POST"]

get_cors_headers(request) ==
  LET origin == HeaderGet(request)
      allowed_origin ==
        IF origin \in SeqRange(ALLOWED_ORIGINS) THEN origin ELSE ALLOWED_ORIGINS[1]
  IN  [h \in {"Content-Type", "Access-Control-Allow-Origin",
              "Access-Control-Allow-Headers", "Access-Control-Allow-Methods"} |->
         CASE h = "Content-Type" -> "application/json"
           [] h = "Access-Control-Allow-Origin" -> allowed_origin
           [] h = "Access-Control-Allow-Headers" -> "Content-Type,x-api-key,Authorization"
           [] OTHER -> "OPTIONS,POST"]

\* A response body: the keys of the JSON object written (none for the empty
\* body of a 204) and their values.
NoOntologyInfo == [name |-> "", version |-> "", constraints_checked |-> 0]
EmptyBody ==
  [keys |-> {}, error |-> "", type |-> "", verdict |-> NoVerdict,
   parsed_data |-> NoData, ontology |-> NoOntologyInfo]
ErrorBody(msg) == [EmptyBody EXCEPT !.keys = {"error"}, !.error = msg]
\* an error body that also carries a result field
ExceptionBodyWithResult(e) ==
  [EmptyBody EXCEPT !.keys = {"error", "type", "parsed_data"}, !.error = e.msg,
     !.type = e.kind]
ExceptionBody(e) ==
  [EmptyBody EXCEPT !.keys = {"error", "type"}, !.error = e.msg, !.type = e.kind]
ResultKeys ==
  {"verified", "violations", "parsed_data", "ontology", "proof", "solver",
   "verification_id", "execution_time_ms", "timestamp"}
\* a response body that counts the ontology's extractors as its constraints
ResultBodyCountsExtractors(verdict, extracted, ontology) ==
  [EmptyBody EXCEPT !.keys = ResultKeys, !.verdict = verdict,
     !.parsed_data = extracted,
     !.ontology = [name |-> ontology.name, version |-> ontology.version,
                   constraints_checked |-> ontology.nextractors]]
ResultBody(verdict, extracted, ontology) ==
  [EmptyBody EXCEPT !.keys = ResultKeys, !.verdict = verdict,
     !.parsed_data = extracted,
     !.ontology = [name |-> ontology.name, version |-> ontology.version,
                   constraints_checked |-> ontology.nconstraints]]

Response(body, status, headers) ==
  [body |-> body, status |-> status, headers |-> headers]
NoResponse ==
  Response(EmptyBody, 0, [h \in {} |-> ""])

\* request.get_json(silent=True) is None for an absent or unparseable body
\* and for the JSON text null
get_json(request) ==
  IF request.body.kind # "json" \/ request.body.type = "NoneType"
  THEN [none |-> TRUE, json |-> NoBody]
  ELSE [none |-> FALSE, json |-> request.body]

\* a handler without the check of line 73
TruthyUnchecked(got) == TRUE

\* "not request_json": None and every empty JSON value are false
Truthy(got) == ~got.none /\ ~got.json.empty

\* request_json.get(key, default)
GetLlm(json) == IF json.hasLlm THEN json.llm ELSE ""
GetOntology(json) == IF json.hasOnt THEN json.ont ELSE DefaultName

\* What lines 94 and 97 did: the ontology given to llm_parser.parse and to
\* smt_verifier.verify (NoDoc when not called) and what each returned
\* (NoData, NoVerdict when it did not return).
NoPipeline ==
  [parse_arg |-> NoDoc, verify_arg |-> NoDoc, extracted |-> NoData,
   verdict |-> NoVerdict]

\* a handler that catches ValueError only: other exceptions escape verify()
HandlerValueErrorOnly(e, cors_headers) ==
  IF e.kind = "ValueError"
  THEN Response(ExceptionBody(e), 500, cors_headers)
  ELSE Response(EmptyBody, 0, cors_headers)

\* Lines 93-116: extractor, solver and response assembly on the ontology
\* that load returned; an exception raised on the way reaches the handler
\* of line 118.
Handler(e, cors_headers) == Response(ExceptionBody(e), 500, cors_headers)

\* a verify() that calls the solver before the extractor
AfterLoadSolverFirst(ontology, eo, so, cors_headers) ==
  IF so.exc # NoExc
  THEN [resp |-> Handler(so.exc, cors_headers), raised |-> so.exc,
        stages |-> << "load", "solve" >>,
        pipeline |-> [NoPipeline EXCEPT !.verify_arg = ontology]]
  ELSE IF eo.exc # NoExc
  THEN [resp |-> Handler(eo.exc, cors_headers), raised |-> eo.exc,
        stages |-> << "load", "solve", "extract" >>,
        pipeline |-> [NoPipeline EXCEPT !.parse_arg = ontology,
                        !.verdict = so.value, !.verify_arg = ontology]]
  ELSE LET e == IF ontology.type = "list"
                THEN Exc("TypeError", "list indices must be integers or slices, not str")
                ELSE IF ontology.type # "dict"
                THEN Exc("TypeError", "string indices must be integers, not 'str'")
                ELSE IF ~eo.value.serializable
                THEN Exc("TypeError", "Object of type set is not JSON serializable")
                ELSE NoExc
           done == [parse_arg |-> ontology, verify_arg |-> ontology,
                    extracted |-> eo.value, verdict |-> so.value]
       IN IF e # NoExc
          THEN [resp |-> Handler(e, cors_headers), raised |-> e,
                stages |-> << "load", "solve", "extract" >>, pipeline |-> done]
          ELSE [resp |-> Response(ResultBody(so.value, eo.value, ontology), 200,
                                  cors_headers),
                raised |-> NoExc, stages |-> << "load", "solve", "extract" >>,
                pipeline |-> done]
AfterLoad(ontology, eo, so, cors_headers) ==
  IF eo.exc # NoExc
  THEN [resp |-> Handler(eo.exc, cors_headers), raised |-> eo.exc,
        stages |-> << "load", "extract" >>,
        pipeline |-> [NoPipeline EXCEPT !.parse_arg = ontology]]
  ELSE IF so.exc # NoExc
  THEN [resp |-> Handler(so.exc, cors_headers), raised |-> so.exc,
        stages |-> << "load", "extract", "solve" >>,
        pipeline |-> [NoPipeline EXCEPT !.parse_arg = ontology,
                        !.extracted = eo.value, !.verify_arg = ontology]]
  ELSE LET e == IF ontology.type = "list"
                THEN Exc("TypeError", "list indices must be integers or slices, not str")
                ELSE IF ontology.type # "dict"
                THEN Exc("TypeError", "string indices must be integers, not 'str'")
                ELSE IF ~eo.value.serializable
                THEN Exc("TypeError", "Object of type set is not JSON serializable")
                ELSE NoExc
           done == [parse_arg |-> ontology, verify_arg |-> ontology,
                    extracted |-> eo.value, verdict |-> so.value]
       IN IF e # NoExc
          THEN [resp |-> Handler(e, cors_headers), raised |-> e,
                stages |-> << "load", "extract", "solve" >>, pipeline |-> done]
          ELSE [resp |-> Response(ResultBody(so.value, eo.value, ontology), 200,
                                  cors_headers),
                raised |-> NoExc, stages |-> << "load", "extract", "solve" >>,
                pipeline |-> done]

\* lines 58 and 62: the method gate
IsPreflight(request) == request.method = "OPTIONS"
\* a gate that lets GET through
IsPostOrGet(request) == request.method \in {"POST", "GET"}
IsPost(request) == request.method = "POST"

\* Lines 55-88: the response verify() gives before it calls load, or
\* NoResponse when the request reaches line 91.
\* a verify() without the check of line 83
BeforeLoadNoLlmCheck(request) ==
  LET cors_headers == get_cors_headers(request)
      got == get_json(request)
  IN IF IsPreflight(request)
     THEN [resp |-> Response(EmptyBody, 204, cors_headers), raised |-> NoExc,
           stages |-> << >>, pipeline |-> NoPipeline]
     ELSE IF ~IsPost(request)
     THEN [resp |-> Response(ErrorBody("Method not allowed"), 405, cors_headers),
           raised |-> NoExc,
           stages |-> << >>, pipeline |-> NoPipeline]
     ELSE IF ~Truthy(got)
     THEN [resp |-> Response(ErrorBody("Invalid JSON in request body"), 400,
                             cors_headers),
           raised |-> NoExc,
           stages |-> << >>, pipeline |-> NoPipeline]
     ELSE IF got.json.type # "dict"
     THEN LET e == Exc("AttributeError", "'list' object has no attribute 'get'")
          IN [resp |-> Handler(e, cors_headers), raised |-> e,
              stages |-> << >>, pipeline |-> NoPipeline]
     ELSE [resp |-> NoResponse, raised |-> NoExc,
           stages |-> << >>, pipeline |-> NoPipeline]
BeforeLoad(request) ==
  LET cors_headers == get_cors_headers(request)
      got == get_json(request)
  IN IF IsPreflight(request)
     THEN [resp |-> Response(EmptyBody, 204, cors_headers), raised |-> NoExc,
           stages |-> << >>, pipeline |-> NoPipeline]
     ELSE IF ~IsPost(request)
     THEN [resp |-> Response(ErrorBody("Method not allowed"), 405, cors_headers),
           raised |-> NoExc,
           stages |-> << >>, pipeline |-> NoPipeline]
     ELSE IF ~Truthy(got)
     THEN [resp |-> Response(ErrorBody("Invalid JSON in request body"), 400,
                             cors_headers),
           raised |-> NoExc,
           stages |-> << >>, pipeline |-> NoPipeline]
     ELSE IF got.json.type # "dict"
     THEN LET e == Exc("AttributeError", "'list' object has no attribute 'get'")
          IN [resp |-> Handler(e, cors_headers), raised |-> e,
              stages |-> << >>, pipeline |-> NoPipeline]
     ELSE IF GetLlm(got.json) = ""
     THEN [resp |-> Response(ErrorBody("llm_output is required"), 400, cors_headers),
           raised |-> NoExc,
           stages |-> << >>, pipeline |-> NoPipeline]
     ELSE [resp |-> NoResponse, raised |-> NoExc,
           stages |-> << >>, pipeline |-> NoPipeline]

(* --------------------------- list_available --------------------------- *)
\* An object name is a sequence of chunks: the text ".json", or text that
\* holds no part of ".json".
Chunks == { "mortgage-compliance-v1", ".json" }
BlobNames == UNION { [1..n -> Chunks] : n \in 1..MaxChunks }

\* blob.name.endswith(".json")
endswith(name) == name[Len(name)] = ".json"

\* blob.name.replace(".json", ""): every occurrence is removed
replace(name) == SelectSeq(name, LAMBDA chunk : chunk # ".json")

\* What bucket.list_blobs() gives: "Error" when obtaining the listing
\* raises, "Broken" when iterating it raises, and the objects it holds.
Distinct(q) == \A i, j \in 1..Len(q) : q[i] = q[j] => i = j
Listings ==
  { [status |-> st, blobs |-> b] :
      st \in {"Ok", "Error", "Broken"},
      b \in { q \in UNION { [1..n -> BlobNames] : n \in 0..MaxBlobs } : Distinct(q) } }
EmptyBucket == [status |-> "Ok", blobs |-> << >>]
ListError == Exc("ServiceUnavailable", "503 list failed")

\* line 165: the list comprehension
RECURSIVE Comprehension(_)
Comprehension(blobs) ==
  IF blobs = << >> THEN << >>
  ELSE (IF endswith(Head(blobs)) THEN << replace(Head(blobs)) >> ELSE << >>)
         \o Comprehension(Tail(blobs))

\* lines 160-165: the try block
ListBody(client, listing) ==
  IF ~client
  THEN [exc |-> NoExc, returned |-> FALSE, value |-> << >>]
  ELSE IF listing.status # "Ok"
  THEN [exc |-> ListError, returned |-> FALSE, value |-> << >>]
  ELSE [exc |-> NoExc, returned |-> TRUE, value |-> Comprehension(listing.blobs)]

DefaultList == << << "mortgage-compliance-v1" >> >>
NoListed == [called |-> FALSE, raised |-> FALSE, value |-> << >>]

\* a list_available whose try block ends before the listing is iterated
ListAvailableIterationEscapes(client, listing) ==
  LET body == ListBody(client, listing)
  IN IF body.returned
     THEN [called |-> TRUE, raised |-> FALSE, value |-> body.value]
     ELSE IF client /\ listing.status = "Broken"
     THEN [called |-> TRUE, raised |-> TRUE, value |-> << >>]
     ELSE [called |-> TRUE, raised |-> FALSE, value |-> DefaultList]
list_available(client, listing) ==
  LET body == ListBody(client, listing)
  IN IF body.returned
     THEN [called |-> TRUE, raised |-> FALSE, value |-> body.value]
     ELSE [called |-> TRUE, raised |-> FALSE, value |-> DefaultList]

(* -------------------------------- state ------------------------------- *)
VARIABLES
  storage_client,  \* TRUE when storage.Client() succeeded in __init__
  store,           \* what the store answers to the next download
  cache,           \* the lru_cache of load
  pc,              \* per thread: "idle", "body" (in load's body), "insert"
  arg,             \* per thread: the ontology_name of its running load call
  pending,         \* per thread: what load's body computed, not yet cached
  req,             \* per thread: the request verify() is serving
  call,            \* the load call that just ended, until its caller took the result
  last,            \* the request just answered, until the response is sent
  budget,          \* load calls made so far (bounds SpecConc)
  listing,         \* what the bucket answers to list_blobs()
  listed           \* the list_available call that just ended, until taken

vars ==
  << storage_client, store, cache, pc, arg, pending, req, call, last, budget,
     listing, listed >>

\* one call of load: its argument, whether it raised, whether the cache
\* answered it, whether it downloaded and what the store answered, the
\* exception its body absorbed, and the value returned
LoadCall(name, raised, hit, body, answer) ==
  [called |-> TRUE, name |-> name, raised |-> raised, hit |-> hit,
   fetched |-> body.fetched, answer |-> answer, absorbed |-> body.absorbed,
   value |-> body.value]
NoBodyRun == [value |-> NoDoc, fetched |-> FALSE, absorbed |-> NoExc]
NoLoad ==
  [LoadCall(DefaultName, FALSE, FALSE, NoBodyRun, NotFound) EXCEPT !.called = FALSE]

Exchange(request, out) ==
  [req |-> request, resp |-> out.resp, raised |-> out.raised,
   stages |-> out.stages, pipeline |-> out.pipeline]
NoExchange ==
  Exchange(NoRequest, [resp |-> NoResponse, raised |-> NoExc, stages |-> << >>,
                       pipeline |-> NoPipeline])

NoPending == [body |-> NoBodyRun, answer |-> NotFound]

InitThreads ==
  /\ cache = << >>
  /\ pc = [t \in Threads |-> "idle"]
  /\ arg = [t \in Threads |-> DefaultName]
  /\ pending = [t \in Threads |-> NoPending]
  /\ req = [t \in Threads |-> NoRequest]
  /\ call = NoLoad
  /\ last = NoExchange
  /\ budget = [hits |-> 0, extras |-> 0, used |-> 0]
  /\ listed = NoListed

Init ==
  /\ storage_client \in BOOLEAN
  /\ store \in StoreAnswers
  /\ listing = EmptyBucket
  /\ InitThreads

(* --------------------------- loader actions --------------------------- *)
UnhashableError == Exc("TypeError", "unhashable type: 'list'")

\* load(name) is called: the lru_cache wrapper hashes the key, which raises
\* for a key without hash; it returns a cached result, refreshing its
\* recency; or it calls load's body.
LoadEnter(t, ontology_name) ==
  /\ pc[t] = "idle"
  /\ call = NoLoad
  /\ IF ~Hashable(ontology_name)
     THEN /\ call' = LoadCall(ontology_name, TRUE, FALSE, NoBodyRun, NotFound)
          /\ UNCHANGED << cache, pc, arg >>
     ELSE IF ontology_name \in CacheKeys(cache)
     THEN /\ cache' = CacheTouch(cache, ontology_name)
          /\ call' = LoadCall(ontology_name, FALSE, TRUE,
                       [NoBodyRun EXCEPT !.value = CacheGet(cache, ontology_name)],
                       NotFound)
          /\ UNCHANGED << pc, arg >>
     ELSE /\ pc' = [pc EXCEPT ![t] = "body"]
          /\ arg' = [arg EXCEPT ![t] = ontology_name]
          /\ call' = NoLoad
          /\ UNCHANGED cache
  /\ UNCHANGED << storage_client, store, pending >>

\* lines 28-42: the body of load, with its one download
LoadBody(t) ==
  /\ pc[t] = "body"
  /\ call = NoLoad
  /\ pending' = [pending EXCEPT
                   ![t] = [body |-> LoadBodyResult(storage_client, store),
                           answer |-> IF storage_client THEN store ELSE NotFound]]
  /\ pc' = [pc EXCEPT ![t] = "insert"]
  /\ call' = NoLoad
  /\ UNCHANGED << storage_client, store, cache, arg >>

\* the body returned: the wrapper caches the result and returns it
LoadExit(t) ==
  /\ pc[t] = "insert"
  /\ call = NoLoad
  /\ cache' = CacheInsert(cache, arg[t], pending[t].body.value)
  /\ call' = LoadCall(arg[t], FALSE, FALSE, pending[t].body, pending[t].answer)
  /\ pc' = [pc EXCEPT ![t] = "idle"]
  /\ arg' = [arg EXCEPT ![t] = DefaultName]
  /\ pending' = [pending EXCEPT ![t] = NoPending]
  /\ UNCHANGED << storage_client, store >>

\* the store's content changes, or the store fails or recovers
StoreChange(answer) ==
  /\ answer # store
  /\ call = NoLoad
  /\ store' = answer
  /\ call' = NoLoad
  /\ UNCHANGED << storage_client, cache, pc, arg, pending >>

(* --------------------------- verify actions --------------------------- *)
\* line 91 onwards, once load has raised or returned
AfterCall(c, eo, so, cors_headers) ==
  IF c.raised
  THEN [resp |-> Handler(UnhashableError, cors_headers), raised |-> UnhashableError,
        stages |-> << "load" >>, pipeline |-> NoPipeline]
  ELSE AfterLoad(c.value, eo, so, cors_headers)

\* verify() from line 55 until it returns or load's body starts
Receive(t, request, EO, SO) ==
  /\ pc[t] = "idle"
  /\ last = NoExchange
  /\ LET pre == BeforeLoad(request) IN
     IF pre.resp # NoResponse
     THEN /\ last' = Exchange(request, pre)
          /\ call' = NoLoad
          /\ UNCHANGED << storage_client, store, cache, pc, arg, pending, req >>
     ELSE /\ LoadEnter(t, GetOntology(request.body))
          /\ IF pc'[t] = "body"
             THEN /\ req' = [req EXCEPT ![t] = request]
                  /\ last' = NoExchange
             ELSE /\ \E eo \in EO, so \in SO :
                       last' = Exchange(request,
                                 AfterCall(call', eo, so, get_cors_headers(request)))
                  /\ UNCHANGED req
  /\ UNCHANGED << budget, listing, listed >>

\* verify() while load's body runs
Loading(t) ==
  /\ LoadBody(t)
  /\ UNCHANGED << req, last, budget, listing, listed >>

\* verify() from the return of load to its own return
Finish(t, EO, SO) ==
  /\ LoadExit(t)
  /\ \E eo \in EO, so \in SO :
       last' = Exchange(req[t], AfterCall(call', eo, so, get_cors_headers(req[t])))
  /\ req' = [req EXCEPT ![t] = NoRequest]
  /\ UNCHANGED << budget, listing, listed >>

StoreChanges(answer) ==
  /\ StoreChange(answer)
  /\ last = NoExchange
  /\ UNCHANGED << req, last, budget, listing, listed >>

\* the response leaves the function
Respond ==
  /\ last # NoExchange
  /\ last' = NoExchange
  /\ call' = NoLoad
  /\ UNCHANGED << storage_client, store, cache, pc, arg, pending, req, budget,
                  listing, listed >>

Next ==
  \/ \E request \in Requests :
       Receive(1, request, ExtractorOutcomes, SolverOutcomes)
  \/ Loading(1)
  \/ Finish(1, ExtractorOutcomes, SolverOutcomes)
  \/ \E answer \in StoreAnswers : StoreChanges(answer)
  \/ Respond

Spec == Init /\ [][Next]_vars

(* ------------------- concurrent loads of many names ------------------- *)
\* Under SpecConc the threads call load directly, on names taken in order
\* of first use (names are interchangeable) and on the lowest idle thread
\* (threads are interchangeable); the store holds one valid document.
ConcName(i) == StrName("ontology-" \o ToString(i))

InitConc ==
  /\ storage_client = TRUE
  /\ store = Text("objV1")
  /\ listing = EmptyBucket
  /\ InitThreads

ConcCall(t, i) ==
  LET hit == ConcName(i) \in CacheKeys(cache)
      repeat == ~hit /\ i <= budget.used
      overlap == \E u \in Threads : pc[u] # "idle"
      cost == (IF hit THEN 1 ELSE 0) + (IF repeat THEN 1 ELSE 0)
                + (IF overlap THEN 1 ELSE 0)
  IN /\ \A u \in Threads : u < t => pc[u] # "idle"
     /\ i <= budget.used + 1
     /\ budget.extras + cost <= MaxExtras
     /\ LoadEnter(t, ConcName(i))
     /\ budget' = [hits |-> budget.hits + (IF hit THEN 1 ELSE 0),
                   extras |-> budget.extras + cost,
                   used |-> IF i > budget.used THEN i ELSE budget.used]
     /\ UNCHANGED << req, last, listing, listed >>

ConcBody(t) == LoadBody(t) /\ UNCHANGED << req, last, budget, listing, listed >>

ConcExit(t) == LoadExit(t) /\ UNCHANGED << req, last, budget, listing, listed >>

\* the caller takes the result of its load call
ConcReturned ==
  /\ call # NoLoad
  /\ call' = NoLoad
  /\ UNCHANGED << storage_client, store, cache, pc, arg, pending, req, last, budget,
                  listing, listed >>

NextConc ==
  \/ \E t \in Threads, i \in 1..NumNames : ConcCall(t, i)
  \/ \E t \in Threads : ConcBody(t)
  \/ \E t \in Threads : ConcExit(t)
  \/ ConcReturned

SpecConc == InitConc /\ [][NextConc]_vars

(* ------------- concurrent loads while the store changes --------------- *)
RaceNames == { DefaultName, CustomName }
RaceAnswers == { Text("objV1"), Text("objV2"), NotFound }

InitRace ==
  /\ storage_client = TRUE
  /\ store \in RaceAnswers
  /\ listing = EmptyBucket
  /\ InitThreads

RaceCall(t, ontology_name) ==
  /\ \A u \in Threads : u < t => pc[u] # "idle"
  /\ LoadEnter(t, ontology_name)
  /\ UNCHANGED << req, last, budget, listing, listed >>

RaceStoreChange(answer) ==
  /\ StoreChange(answer)
  /\ UNCHANGED << req, last, budget, listing, listed >>

NextRace ==
  \/ \E t \in Threads, ontology_name \in RaceNames : RaceCall(t, ontology_name)
  \/ \E t \in Threads : ConcBody(t)
  \/ \E t \in Threads : ConcExit(t)
  \/ \E answer \in RaceAnswers : RaceStoreChange(answer)
  \/ ConcReturned

SpecRace == InitRace /\ [][NextRace]_vars

(* ------------------- list_available over bucket listings -------------- *)
InitList ==
  /\ storage_client \in BOOLEAN
  /\ store = NotFound
  /\ listing \in Listings
  /\ InitThreads

ListFrame == << storage_client, store, cache, pc, arg, pending, req, call, last, budget >>

\* list_available() is called and returns
ListAvailable ==
  /\ listed = NoListed
  /\ listed' = list_available(storage_client, listing)
  /\ UNCHANGED << ListFrame, listing >>

\* the caller takes the result
ListReturned ==
  /\ listed # NoListed
  /\ listed' = NoListed
  /\ UNCHANGED << ListFrame, listing >>

\* an object is deleted from the bucket
DeleteObject(i) ==
  /\ listed = NoListed
  /\ i \in 1..Len(listing.blobs)
  /\ listing' = [listing EXCEPT !.blobs = RemoveAt(listing.blobs, i)]
  /\ UNCHANGED << ListFrame, listed >>

\* listing the bucket starts to fail, or recovers
ListingChange(status) ==
  /\ listed = NoListed
  /\ status # listing.status
  /\ listing' = [listing EXCEPT !.status = status]
  /\ UNCHANGED << ListFrame, listed >>

NextList ==
  \/ ListAvailable
  \/ ListReturned
  \/ \E i \in 1..MaxBlobs : DeleteObject(i)
  \/ \E status \in {"Ok", "Error", "Broken"} : ListingChange(status)

SpecList == InitList /\ [][NextList]_vars

(* ------------------------------- claims ------------------------------- *)

\* C1: every call of load returns a value to its caller; none raises,
\* whatever the ontology name passed in and whatever the store's state.
C1_LoadNeverRaises == call.called => ~call.raised

\* C2: a load call that runs load's body returns the built-in default
\* ontology (mortgage-compliance-v1, 5 constraints, 10 extraction rules)
\* whenever the storage client is missing (then without a download), the
\* object is not found, the download fails otherwise, the text is not JSON
\* or the document fails validation, and returns the fetched document when
\* none of these happens; every cached result is the default or a fetched
\* document that passed validation.
C2_FallbackOnEveryFailure ==
  LET Fetched(a) == json_loads(a.text).value
      Passes(a) ==
        /\ a.status = "Ok"
        /\ json_loads(a.text).exc = NoExc
        /\ Fetched(a).type \in {"dict", "list", "str"}
        /\ \A f \in SeqRange(required_fields) : f \in Fetched(a).has
  IN /\ call.called /\ ~call.raised /\ ~call.hit =>
          /\ call.fetched = storage_client
          /\ IF storage_client /\ Passes(call.answer)
             THEN call.value = Fetched(call.answer)
             ELSE /\ call.value = _get_default_ontology
                  /\ call.value.name = "mortgage-compliance-v1"
                  /\ call.value.nconstraints = 5
                  /\ call.value.nextractors = 10
     /\ \A i \in 1..Len(cache) :
          \/ cache[i].result = _get_default_ontology
          \/ \E a \in StoreAnswers : Passes(a) /\ cache[i].result = Fetched(a)

C2_Witness ==
  /\ call.called /\ ~call.hit /\ call.fetched
  /\ call.answer = Text("objNoExtractors")
  /\ call.value = _get_default_ontology

\* C3: every value load returns is a document (a JSON object) that holds the
\* four required fields name, version, constraints and extractors.
C3_ReturnsRequiredFields ==
  call.called /\ ~call.raised =>
    /\ call.value.type = "dict"
    /\ SeqRange(required_fields) \subseteq call.value.has

\* C4: a load call made for a name that is cached never enters load's body
\* (no download) and returns the cached content; the content cached for a
\* name does not change while the name stays cached, whatever the store
\* now holds; and it is the content the first load of that name returned.
C4_RepeatedLoadsFromCache ==
  [][LET Keys(c) == { c[i].key : i \in 1..Len(c) }
         Result(c, k) == c[CHOOSE i \in 1..Len(c) : c[i].key = k].result
     IN /\ \A t \in Threads :
             pc[t] = "idle" /\ pc'[t] = "body" => arg'[t] \notin Keys(cache)
        /\ (call = NoLoad /\ call'.called /\ ~call'.raised /\ pc' = pc
              /\ call'.name \in Keys(cache))
             => /\ call'.hit /\ ~call'.fetched
                /\ call'.value = Result(cache, call'.name)
        /\ \A k \in Keys(cache) \cap Keys(cache') :
             Result(cache', k) = Result(cache, k)
        /\ (call = NoLoad /\ call'.called /\ ~call'.raised /\ ~call'.hit
              /\ call'.name \notin Keys(cache))
             => /\ call'.name \in Keys(cache')
                /\ Result(cache', call'.name) = call'.value]_vars

C4_Witness ==
  /\ call.called /\ call.hit
  /\ call.value = ObjV1
  /\ storage_client /\ store = Text("objV2")

\* C5: the cache never holds more than 10 entries nor one name twice; a
\* load call that ends leaves its name most recently used when the cache
\* answered it or when it inserted it; inserting a name into a cache of 10
\* removes exactly the least recently used entry and keeps the other 9, in
\* their order; and a load call enters load's body only for a name that is
\* not cached.
C5_BoundedLRU ==
  [][LET Keys(c) == { c[i].key : i \in 1..Len(c) }
         Pos(c, k) == CHOOSE i \in 1..Len(c) : c[i].key = k
         n == call'.name
     IN /\ Len(cache') <= 10
        /\ Cardinality(Keys(cache')) = Len(cache')
        /\ (call = NoLoad /\ call'.called /\ ~call'.raised) =>
             /\ call'.hit => n \in Keys(cache)
             /\ (n \in Keys(cache) /\ call'.hit) =>
                   Keys(cache') = Keys(cache) /\ cache'[Len(cache')].key = n
             /\ (n \in Keys(cache) /\ ~call'.hit) => cache' = cache
             /\ n \notin Keys(cache) =>
                   /\ cache'[Len(cache')].key = n
                   /\ Keys(cache') =
                        IF Len(cache) = 10
                        THEN (Keys(cache) \ {cache[1].key}) \cup {n}
                        ELSE Keys(cache) \cup {n}
             /\ \A a, b \in (Keys(cache) \cap Keys(cache')) \ {n} :
                   Pos(cache, a) < Pos(cache, b) <=> Pos(cache', a) < Pos(cache', b)
        /\ call' = NoLoad => cache' = cache
        /\ \A t \in Threads :
             pc[t] = "idle" /\ pc'[t] = "body" => arg'[t] \notin Keys(cache)]_vars

C5_Witness ==
  /\ call.called /\ ~call.hit
  /\ Len(cache) = 10 /\ budget.used > 10 /\ budget.hits > 0
  /\ cache[Len(cache)].key = call.name
  /\ \E i \in 1..Len(cache) : cache[i].key = ConcName(1)
  /\ \A i \in 1..Len(cache) : cache[i].key # ConcName(2)

\* C6: every request gets one response; when the loader, the extractor, the
\* solver or response assembly raised, the response is a 500 whose body is
\* {error: the exception's message, type: the exception's kind}.
C6_ExceptionsBecome500 ==
  last # NoExchange =>
    /\ last.resp.status \in {200, 204, 400, 405, 500}
    /\ last.raised # NoExc <=> last.resp.status = 500
    /\ last.raised # NoExc =>
         /\ last.resp.body.keys = {"error", "type"}
         /\ last.resp.body.error = last.raised.msg
         /\ last.resp.body.type = last.raised.kind

C6_Witness ==
  /\ last.raised = Exc("Z3Exception", "solver failed")
  /\ last.stages = << "load", "extract", "solve" >>
  /\ last.resp.status = 500

\* C7: a POST whose body is a JSON object without llm_output, or with an
\* empty one, is answered 400 {"error": "llm_output is required"}.
C7_LlmOutputRequired ==
  (/\ last.req.method = "POST"
   /\ last.req.body.kind = "json" /\ last.req.body.type = "dict"
   /\ (~last.req.body.hasLlm \/ last.req.body.llm = ""))
  => /\ last.resp.status = 400
     /\ last.resp.body.keys = {"error"}
     /\ last.resp.body.error = "llm_output is required"

\* C8: a POST whose body is absent or is not JSON is answered
\* 400 {"error": "Invalid JSON in request body"}.
C8_InvalidJson ==
  (last.req.method = "POST" /\ last.req.body.kind \in {"absent", "unparseable"})
  => /\ last.resp.status = 400
     /\ last.resp.body.keys = {"error"}
     /\ last.resp.body.error = "Invalid JSON in request body"

C8_Witness ==
  /\ last.req.method = "POST" /\ last.req.body.kind = "unparseable"
  /\ last.resp.status = 400

\* C9: an OPTIONS request is answered 204 with an empty body, a request
\* that is neither OPTIONS nor POST is answered 405 {"error": "Method not
\* allowed"}, both without a load call, and a POST is answered neither 204
\* nor 405, whatever the body and the Origin.
C9_MethodGate ==
  last # NoExchange =>
    /\ last.req.method = "OPTIONS" =>
         last.resp.status = 204 /\ last.resp.body.keys = {}
    /\ last.req.method \notin {"OPTIONS", "POST"} =>
         /\ last.resp.status = 405
         /\ last.resp.body.keys = {"error"}
         /\ last.resp.body.error = "Method not allowed"
    /\ last.req.method = "POST" => last.resp.status \in {200, 400, 500}
    /\ last.req.method # "POST" => ~call.called /\ last.stages = << >>

C9_Witness ==
  /\ last.req.method = "GET"
  /\ last.req.origin = "https://evil.example"
  /\ last.req.body.hasLlm /\ last.req.body.llm # ""
  /\ last.resp.status = 405

\* C10: every response carries the four CORS headers, and its
\* Access-Control-Allow-Origin is the request's Origin when that is one of
\* the four allowed origins and https://aare.ai otherwise.
C10_CorsHeaders ==
  last # NoExchange =>
    LET h == last.resp.headers
        allowed == { "https://aare.ai", "https://www.aare.ai",
                     "http://localhost:8000", "http://localhost:3000" }
    IN /\ DOMAIN h = {"Content-Type", "Access-Control-Allow-Origin",
                      "Access-Control-Allow-Headers", "Access-Control-Allow-Methods"}
       /\ h["Content-Type"] = "application/json"
       /\ h["Access-Control-Allow-Methods"] = "OPTIONS,POST"
       /\ h["Access-Control-Allow-Origin"] \in allowed
       /\ h["Access-Control-Allow-Origin"] =
            IF last.req.origin \in allowed THEN last.req.origin ELSE "https://aare.ai"

C10_Witness ==
  /\ last.resp.status = 500
  /\ last.req.origin = "https://evil.example"
  /\ last.resp.headers["Access-Control-Allow-Origin"] = "https://aare.ai"

\* C11: in every 200 response, verified, violations, proof and
\* execution_time_ms are the values the solver returned, parsed_data is what
\* the extractor returned, and ontology.name, ontology.version and
\* ontology.constraints_checked are the name, the version and the number of
\* constraints of the ontology that this request's one load call returned,
\* which is also the ontology given to the extractor and to the solver.
C11_ResponseReportsPipeline ==
  (last # NoExchange /\ last.resp.status = 200) =>
    /\ call.called /\ ~call.raised
    /\ last.stages = << "load", "extract", "solve" >>
    /\ last.pipeline.verdict # NoVerdict
    /\ last.pipeline.extracted # NoData
    /\ last.resp.body.verdict = last.pipeline.verdict
    /\ last.resp.body.parsed_data = last.pipeline.extracted
    /\ last.pipeline.parse_arg = call.value
    /\ last.pipeline.verify_arg = call.value
    /\ last.resp.body.ontology.name = call.value.name
    /\ last.resp.body.ontology.version = call.value.version
    /\ last.resp.body.ontology.constraints_checked = call.value.nconstraints

C11_Witness ==
  /\ last.resp.status = 200
  /\ call.fetched
  /\ call.value = ObjV2
  /\ last.resp.body.verdict.verified = FALSE
  /\ last.resp.body.verdict.violations = 1
  /\ last.resp.body.ontology.constraints_checked = 2

\* C12: a response carries result fields (verified, violations, parsed_data,
\* proof) only when its status is 200, and then it carries all of them; a
\* request whose extractor or solver fails after an earlier step succeeded
\* is answered without any of the results computed so far.
C12_AllOrNothing ==
  last # NoExchange =>
    LET body == last.resp.body
        results == {"verified", "violations", "parsed_data", "proof"}
    IN /\ last.resp.status = 200 => results \subseteq body.keys
       /\ last.resp.status # 200 =>
            /\ body.keys \cap results = {}
            /\ body.verdict = NoVerdict
            /\ body.parsed_data = NoData
       /\ last.raised # NoExc => last.resp.status # 200

C12_Witness ==
  /\ last.stages = << "load", "extract", "solve" >>
  /\ last.pipeline.extracted # NoData
  /\ last.raised = Exc("Z3Exception", "solver failed")
  /\ last.resp.status = 500
  /\ last.resp.body.keys = {"error", "type"}

\* C13: list_available() never raises, and whenever the store cannot be
\* listed (the client was not initialised, obtaining the listing raises, or
\* iterating it raises) it returns exactly ["mortgage-compliance-v1"].
C13_ListNeverRaises ==
  listed.called =>
    /\ ~listed.raised
    /\ (~storage_client \/ listing.status # "Ok") =>
         listed.value = << << "mortgage-compliance-v1" >> >>

C13_Witness ==
  /\ listed.called
  /\ storage_client
  /\ listing.status = "Broken"
  /\ Len(listing.blobs) = 2
  /\ \A i \in 1..2 : endswith(listing.blobs[i])
  /\ listed.value = << << "mortgage-compliance-v1" >> >>

\* C14: when the store can be listed, list_available() returns one entry
\* for each object whose name ends in .json and none for the others, each
\* entry being the object's name without that trailing .json and with the
\* rest of the name unchanged.
C14_ListStripsSuffix ==
  (listed.called /\ storage_client /\ listing.status = "Ok") =>
    LET json == SelectSeq(listing.blobs, LAMBDA name : name[Len(name)] = ".json")
    IN /\ Len(listed.value) = Len(json)
       /\ \A i \in 1..Len(json) :
            listed.value[i] = SubSeq(json[i], 1, Len(json[i]) - 1)

\* C15: a request calls the loader, the extractor and the solver at most
\* once each and in that order, each only after the one before returned,
\* and ends in exactly one of: 204 for OPTIONS and 405 for a method other
\* than OPTIONS and POST, both before the body is read; 400 before the
\* loader is called; 200 after all three calls; 500 when something raised.
C15_StageOrder ==
  last # NoExchange =>
    LET n == Len(last.stages)
    IN /\ last.stages = SubSeq(<< "load", "extract", "solve" >>, 1, n)
       /\ last.resp.status \in {204, 405, 400, 200, 500}
       /\ last.resp.status = 204 <=> last.req.method = "OPTIONS"
       /\ last.resp.status = 405 <=> last.req.method \notin {"OPTIONS", "POST"}
       /\ last.resp.status \in {204, 405, 400} => n = 0 /\ last.raised = NoExc
       /\ last.resp.status = 200 => n = 3 /\ last.raised = NoExc
       /\ last.resp.status = 500 <=> last.raised # NoExc
       /\ n >= 1 <=> call.called
       /\ n >= 2 => ~call.raised /\ last.pipeline.parse_arg = call.value
       /\ n < 2 => last.pipeline = NoPipeline
       /\ n = 3 => /\ last.pipeline.extracted # NoData
                   /\ last.pipeline.verify_arg = call.value
       /\ n < 3 => last.pipeline.verdict = NoVerdict

C15_Witness ==
  /\ last.req.method = "POST"
  /\ last.stages = << "load", "extract" >>
  /\ last.raised = Exc("ValueError", "could not extract")
  /\ last.resp.status = 500
  /\ ~call.hit /\ call.fetched

\* C16: a POST with a non-empty llm_output whose named ontology cannot be
\* fetched, does not exist or is not a valid document (a JSON object with
\* the four required fields) never gets a 500 caused by the ontology: a 500
\* it gets comes from the extractor, the solver or the serialisation of
\* their results, and when these succeed it gets 200 with ontology.name =
\* mortgage-compliance-v1 and constraints_checked = 5.
C16_OntologyFailureNotSurfaced ==
  LET Valid(a) ==
        /\ a.status = "Ok"
        /\ json_loads(a.text).exc = NoExc
        /\ json_loads(a.text).value.type = "dict"
        /\ SeqRange(required_fields) \subseteq json_loads(a.text).value.has
      succeeded ==
        /\ last.pipeline.extracted # NoData
        /\ last.pipeline.extracted.serializable
        /\ last.pipeline.verdict # NoVerdict
  IN (/\ last # NoExchange
      /\ call.called /\ ~call.raised /\ ~call.hit
      /\ ~storage_client \/ ~Valid(call.answer)) =>
       /\ last.resp.status \in {200, 500}
       /\ last.resp.status = 500 => ~succeeded
       /\ succeeded =>
            /\ last.resp.status = 200
            /\ last.resp.body.ontology.name = "mortgage-compliance-v1"
            /\ last.resp.body.ontology.constraints_checked = 5

\* C17: when two calls load the same uncached name concurrently, each may
\* fetch, but both receive the same content, the cache ends with a single
\* entry for the name, and every later load returns that content: whenever
\* a load call that ran load's body returns, the cache holds exactly one
\* entry for its name and that entry is the content the call returns.
C17_RaceSameContent ==
  [][(call = NoLoad /\ call'.called /\ ~call'.raised /\ ~call'.hit) =>
       /\ Cardinality({ i \in 1..Len(cache') : cache'[i].key = call'.name }) = 1
       /\ CacheGet(cache', call'.name) = call'.value]_vars

\* C17 as it holds: each of the two calls returns the outcome of its own
\* fetch (the fetched document, or the default when the object is missing),
\* so both receive the same content when the store answered both fetches
\* alike; the cache ends with a single entry for the name, holding what the
\* call that returned first returned, which the other call leaves as it is;
\* and a later load of the name returns that cached content.
C17_RaceKeepsFirst ==
  [][LET n == call'.name
         Own(a) == IF a.status = "Ok" THEN json_loads(a.text).value
                   ELSE _get_default_ontology
     IN /\ (call = NoLoad /\ call'.called /\ ~call'.raised /\ ~call'.hit) =>
             /\ call'.answer \in RaceAnswers
             /\ call'.value = Own(call'.answer)
             /\ Cardinality({ i \in 1..Len(cache') : cache'[i].key = n }) = 1
             /\ IF n \in CacheKeys(cache)
                THEN cache' = cache
                ELSE CacheGet(cache', n) = call'.value
        /\ (call = NoLoad /\ call'.called /\ call'.hit) =>
             /\ n \in CacheKeys(cache)
             /\ call'.value = CacheGet(cache, n)
             /\ CacheGet(cache', n) = CacheGet(cache, n)]_vars

C17_Witness ==
  /\ call.called /\ ~call.hit
  /\ call.name = CustomName
  /\ call.value = ObjV2
  /\ CustomName \in CacheKeys(cache)
  /\ CacheGet(cache, CustomName) = ObjV1

\* C18: a fallback is memoized like a success and never retried: once a
\* load call has returned the default because its fetch failed, the name is
\* cached with the default, and every later load of the name is answered by
\* the cache with the default, without a download, whatever the store now
\* holds, as long as the name stays cached.
C18_FallbackMemoized ==
  [][/\ (call = NoLoad /\ call'.called /\ ~call'.raised /\ ~call'.hit
           /\ call'.answer.status # "Ok") =>
          /\ call'.value = _get_default_ontology
          /\ call'.name \in CacheKeys(cache')
          /\ CacheGet(cache', call'.name) = _get_default_ontology
     /\ (call = NoLoad /\ call'.called /\ ~call'.raised /\ pc' = pc) =>
          /\ call'.hit /\ ~call'.fetched
          /\ call'.value = CacheGet(cache, call'.name)
     /\ \A t \in Threads :
          pc[t] = "idle" /\ pc'[t] = "body" => arg'[t] \notin CacheKeys(cache)
     /\ \A k \in CacheKeys(cache) \cap CacheKeys(cache') :
          CacheGet(cache', k) = CacheGet(cache, k)]_vars

\* C18 as it holds: once a load call has returned the default because its
\* fetch failed and no concurrent call had cached a result for the name in
\* the meantime, the name is cached with the default, and every later load
\* of the name is answered by the cache with the default, without a
\* download, whatever the store now holds, as long as the name stays
\* cached; a call that finds a result cached by a concurrent call when it
\* returns leaves that result cached.
C18_CachedFallbackSticks ==
  [][/\ (call = NoLoad /\ call'.called /\ ~call'.raised /\ ~call'.hit
           /\ call'.answer.status # "Ok") =>
          /\ call'.value = _get_default_ontology
          /\ call'.name \in CacheKeys(cache')
          /\ IF call'.name \in CacheKeys(cache)
             THEN cache' = cache
             ELSE CacheGet(cache', call'.name) = _get_default_ontology
     /\ (call = NoLoad /\ call'.called /\ ~call'.raised /\ pc' = pc) =>
          /\ call'.hit /\ ~call'.fetched
          /\ call'.value = CacheGet(cache, call'.name)
     /\ \A t \in Threads :
          pc[t] = "idle" /\ pc'[t] = "body" => arg'[t] \notin CacheKeys(cache)
     /\ \A k \in CacheKeys(cache) \cap CacheKeys(cache') :
          CacheGet(cache', k) = CacheGet(cache, k)]_vars

C18_Witness ==
  /\ call.called /\ call.hit /\ ~call.fetched
  /\ call.name = CustomName
  /\ call.value = _get_default_ontology
  /\ storage_client /\ store = Text("objV1")

\* C19: a request answered 204, 405 or 400 calls neither the loader, the
\* extractor nor the solver and leaves the cache as it was (same entries,
\* same order) without a download; the cache changes, and load's body is
\* entered, only for a POST whose body is a non-empty JSON value with a
\* non-empty llm_output.
C19_EarlyReturnsLeaveCache ==
  [][LET PassedChecks(r) ==
           /\ r.method = "POST"
           /\ r.body.kind = "json" /\ ~r.body.empty
           /\ r.body.hasLlm /\ r.body.llm # ""
     IN /\ (last = NoExchange /\ last' # NoExchange
              /\ last'.resp.status \in {204, 405, 400}) =>
             /\ cache' = cache
             /\ call' = NoLoad
             /\ pc' = pc /\ pending' = pending
             /\ last'.stages = << >>
             /\ last'.pipeline = NoPipeline
        /\ cache' # cache => last' # NoExchange /\ PassedChecks(last'.req)
        /\ \A t \in Threads :
             pc'[t] # pc[t] => PassedChecks(req[t]) \/ PassedChecks(req'[t])]_vars

C19_Witness ==
  /\ last.resp.status = 400
  /\ last.resp.body.error = "llm_output is required"
  /\ last.req.body.hasOnt /\ last.req.body.ont = CustomName
  /\ Len(cache) = 2
  /\ cache[1].key = CustomName

\* C20: client errors are answered 400, never 500: a POST whose body is
\* valid JSON but not an object, lacks llm_output, or carries an ontology
\* field that is not a string is answered 400, and a POST is answered 500
\* only when the loader, the extractor, the solver or the assembly of the
\* response failed.
C20_ClientErrorsAre400 ==
  (last # NoExchange /\ last.req.method = "POST") =>
    LET body == last.req.body
        malformed ==
          /\ body.kind = "json"
          /\ \/ body.type # "dict"
             \/ ~body.hasLlm
             \/ body.hasOnt /\ body.ont.type # "str"
    IN /\ malformed => last.resp.status = 400
       /\ last.resp.status = 500 => Len(last.stages) >= 1

====
